---- MODULE Spec2Model ----
(***************************************************************************)
(* usePagination (hooks/usePagination): the page held by the hook, the     *)
(* navigation callbacks created by a render, and the memoised pagination   *)
(* range.                                                                  *)
(*                                                                         *)
(* A render of the hook reads the held page into the constant activePage   *)
(* and builds setPage/next/previous/first/last as closures over that       *)
(* constant and over the props of that render.  The callbacks write the    *)
(* held page; the constant only changes at the next render.                *)
(*                                                                         *)
(* useFetch (hooks/useFetch): one mounted hook instance, its reducer       *)
(* state, its per-url cache, the cancelRequest flag and the requests in    *)
(* flight.                                                                 *)
(*                                                                         *)
(* useLocalStorage and useReadLocalStorage: hook instances sharing one key *)
(* of window.localStorage, the value each holds in React state, the value  *)
(* its last render returned, and the 'local-storage' event.                *)
(*                                                                         *)
(* useTernaryDarkMode: the mode, the media-query state and isDarkMode,     *)
(* with renders and the effects of a render as separate steps.             *)
(*                                                                         *)
(* useCountdown: the count, the running flag and the interval registered   *)
(* by the effect of useInterval.                                           *)
(***************************************************************************)
EXTENDS Integers, Sequences, FiniteSets, TLC

\* ---------------------------------------------------------------- bounds
MaxTotal == 10
MaxSiblings == 1
MaxBoundaries == 1
ArgSlack == 2

Totals == 0..MaxTotal
SiblingCounts == 0..MaxSiblings
BoundaryCounts == 0..MaxBoundaries
\* arguments of setPage and values of initialPage: below, inside and above
\* every [1, total]
PageArgs == (0 - ArgSlack)..(MaxTotal + ArgSlack)

\* ---------------------------------------------------------------- state
VARIABLES
  total,        \* prop total of the last render
  siblings,     \* prop siblings of the last render
  boundaries,   \* prop boundaries of the last render
  initialPage,  \* prop initialPage
  held,         \* the page held by useUncontrolled (written by setActivePage)
  activePage,   \* const activePage of the last render (closed over by the callbacks)
  memoRange,    \* value cached by useMemo
  memoDeps,     \* dependency array the cached value was computed for
  lastOp,       \* history: the operation that produced this state
  lastArg,      \* history: the argument of that operation (0 when it has none)
  page,         \* prop page: <<>> when absent, <<n>> when the caller supplies n
  hasOnChange,  \* whether the caller passed an onChange callback
  notified,     \* <<v>> when the last operation called onChange(v), else <<>>
  walk          \* history: how many steps of the documented example were followed

paginationVars == <<total, siblings, boundaries, initialPage, held, activePage,
                    memoRange, memoDeps, lastOp, lastArg, page, hasOnChange,
                    notified, walk>>

\* useFetch
VARIABLES
  url,            \* prop url of the last render, "" when it is not given
  fetchMounted,   \* whether the component using the hook is mounted
  cache,          \* cache.current: per url <<>> or <<data>>
  cancelRequest,  \* cancelRequest.current
  state,          \* reducer state: data and error, each <<>> (undefined) or <<v>>
  pending,        \* calls of fetch that have not settled: [id, url]
  issued,         \* number of calls of fetch made so far
  current,        \* history: id of the request the last effect run started, 0 if none
  fetchLast       \* history: the step that produced this state

fetchVars == <<url, fetchMounted, cache, cancelRequest, state, pending, issued,
               current, fetchLast>>

\* useLocalStorage / useReadLocalStorage
VARIABLES
  localStorage,   \* the item under the key: <<>> when absent, else <<text>>
  lsMounted,      \* per hook instance: whether it is mounted
  lsInitial,      \* per useLocalStorage instance: its initialValue argument
  storedValue,    \* per hook instance: the React state storedValue
  returned,       \* per hook instance: storedValue as of its last render
  written,        \* history: <<v>> for the last value a setValue call stored
  lsLast          \* history: the step that produced this state

storageVars == <<localStorage, lsMounted, lsInitial, storedValue, returned,
                 written, lsLast>>

\* useTernaryDarkMode
VARIABLES
  osDark,             \* window.matchMedia(COLOR_SCHEME_QUERY).matches
  matches,            \* the React state of useMediaQuery
  ternaryDarkMode,    \* the React state of useLocalStorage (the mode)
  isDarkMode,         \* the React state isDarkMode
  themeRender,        \* the constants of the last render
  themeDeps,          \* <<>> before the first effect run, else the
                      \* dependencies <<ternaryDarkMode, isDarkOS>> of the last
  themeEffectsPending,\* the effects of the last render have not run yet
  settled,            \* history: <<isDarkMode, osDark>> when the effects first
                      \* settled after the last mode change
  themeLast           \* history: the step that produced this state

themeVars == <<osDark, matches, ternaryDarkMode, isDarkMode, themeRender,
               themeDeps, themeEffectsPending, settled, themeLast>>

\* useCountdown
VARIABLES
  seconds,            \* prop seconds
  interval,           \* prop interval
  isIncrement,        \* prop isIncrement
  count,              \* the React state of useCounter
  running,            \* the React state of useBoolean
  cdRender,           \* the constants count and running of the last render
  delayDeps,          \* <<>> before the first effect run, else <<delay>> of
                      \* the last run of the effect of useInterval
  intervalId,         \* whether an interval is registered with setInterval
  cdEffectsPending,   \* the effects of the last render have not run yet
  sinceReset,         \* history: reset() was called and start() not since
  cdLast              \* history: the step that produced this state

countdownVars == <<seconds, interval, isIncrement, count, running, cdRender,
                   delayDeps, intervalId, cdEffectsPending, sinceReset, cdLast>>

vars == <<paginationVars, fetchVars, storageVars, themeVars, countdownVars>>

props == <<total, siblings, boundaries, initialPage, page, hasOnChange>>

\* ---------------------------------------------------------------- helpers
\* the ellipsis marker; page numbers are >= 1, so -1 is never a page
DOTS == -1

\* the null of "number | null": no page is selected
NoSelection == -100

Max(a, b) == IF a >= b THEN a ELSE b
Min(a, b) == IF a <= b THEN a ELSE b

\* utils/range: the dense sequence start..end, empty when end < start
range(start, end) ==
  IF end < start THEN <<>> ELSE [i \in 1..(end - start + 1) |-> start + i - 1]

\* const totalPageNumbers = siblings * 2 + 3 + boundaries * 2
totalPageNumbers(s, b) == s * 2 + 3 + b * 2

\* if (totalPageNumbers >= total) return range(1, total)
showAllPagesMutGt(t, s, b) == totalPageNumbers(s, b) > t

showAllPages(t, s, b) == totalPageNumbers(s, b) >= t

\* Math.max(activePage - siblings, boundaries)
leftSiblingIndexMutMin(p, s, b) == Min(p - s, b)

leftSiblingIndex(p, s, b) == Max(p - s, b)

\* Math.min(activePage + siblings, total - boundaries)
rightSiblingIndex(t, p, s, b) == Min(p + s, t - b)

\* leftSiblingIndex > boundaries + 2
shouldShowLeftDotsMutOne(p, s, b) == leftSiblingIndex(p, s, b) > b + 1

shouldShowLeftDots(p, s, b) == leftSiblingIndex(p, s, b) > b + 2

\* rightSiblingIndex < total - (boundaries + 1)
shouldShowRightDots(t, p, s, b) == rightSiblingIndex(t, p, s, b) < t - (b + 1)

\* const leftItemCount = siblings * 2 + boundaries + 2
leftItemCountMutPlus(s, b) == s * 2 + b + 3

leftItemCount(s, b) == s * 2 + b + 2

\* const rightItemCount = boundaries + 1 + 2 * siblings
rightItemCountMutNoCurrent(s, b) == b + 2 * s

rightItemCount(s, b) == b + 1 + 2 * s

\* body of the useMemo callback
paginationRange(t, s, b, p) ==
  IF showAllPages(t, s, b) THEN range(1, t)
  ELSE IF ~shouldShowLeftDots(p, s, b) /\ shouldShowRightDots(t, p, s, b)
  THEN range(1, leftItemCount(s, b)) \o <<DOTS>> \o range(t - (b - 1), t)
  ELSE IF shouldShowLeftDots(p, s, b) /\ ~shouldShowRightDots(t, p, s, b)
  THEN range(1, b) \o <<DOTS>> \o range(t - rightItemCount(s, b), t)
  ELSE range(1, b) \o <<DOTS>>
       \o range(leftSiblingIndex(p, s, b), rightSiblingIndex(t, p, s, b))
       \o <<DOTS>> \o range(t - b + 1, t)

\* dependency array of the useMemo call: [total, siblings, activePage]
memoDependencies(t, s, b, p) == <<t, s, p>>

\* useMemo: the callback runs only when a dependency differs from the cached one
useMemo(t, s, b, p, cachedDeps, cachedValue) ==
  IF memoDependencies(t, s, b, p) # cachedDeps
  THEN paginationRange(t, s, b, p)
  ELSE cachedValue

\* the page setPage hands to setActivePage
setPageValueMutZero(pageNumber, t) ==
  IF pageNumber < 0 THEN 1
  ELSE IF pageNumber > t THEN t
  ELSE pageNumber

setPageValue(pageNumber, t) ==
  IF pageNumber <= 0 THEN 1
  ELSE IF pageNumber > t THEN t
  ELSE pageNumber

\* useUncontrolled, uncontrolled mode: the page held at construction
initialValueMutNoUpper(ip, t) ==
  IF t = 0 THEN 1
  ELSE IF ip < 1 THEN 1
  ELSE ip

initialValue(ip, t) ==
  IF t = 0 THEN 1
  ELSE IF ip < 1 THEN 1
  ELSE IF ip > t THEN t
  ELSE ip

\* rule: (_page) => typeof _page === 'number' && _page <= total
ruleMutStrict(pg, t) == pg # <<>> /\ pg[1] < t

rule(pg, t) == pg # <<>> /\ pg[1] <= t

\* useUncontrolled: the supplied value when the rule accepts it, the held
\* value otherwise
effectiveValue(pg, h, t) == IF rule(pg, t) THEN pg[1] ELSE h

\* the calls of the documented example, in order
WalkScript ==
  << <<"setPage", 5>>, <<"next", 0>>, <<"previous", 0>>, <<"last", 0>>,
     <<"first", 0>> >>

\* the example's hook: usePagination({ total: 10, initialPage: 1 })
WalkStart(t, s, b, ip, pg) == t = 10 /\ s = 1 /\ b = 1 /\ ip = 1 /\ pg = <<>>

\* ================================================================ useFetch
\* ---------------------------------------------------------------- bounds
MaxRequests == 3

\* ---------------------------------------------------------------- values
\* JavaScript values as <<type, text>>
JsFalse == <<"boolean", "false">>
JsTrue == <<"boolean", "true">>
JsZero == <<"number", "0">>
JsEmptyString == <<"string", "">>
JsStringA == <<"string", "a">>
JsNull == <<"null", "null">>
JsUndefined == <<"undefined", "undefined">>

\* ToBoolean(v): what `if (v)` and `v ? x : y` test
Truthy(v) == v \notin {JsFalse, JsZero, JsEmptyString, JsNull, JsUndefined}

Urls == {"/a", "/b"}
\* values of the url prop; "" stands for a url that is not given
UrlProps == Urls \cup {""}
\* bodies response.json() can yield
Payloads == {JsZero, JsStringA, JsTrue}

\* const initialState = { error: undefined, data: undefined }
initialState == [data |-> <<>>, error |-> <<>>]

\* fetchReducer
fetchReducer(st, type, payload) ==
  CASE type = "loading" -> initialState
    [] type = "fetched" -> [initialState EXCEPT !.data = <<payload>>]
    [] type = "error" -> [initialState EXCEPT !.error = <<payload>>]
    [] OTHER -> st

\* if (cache.current[url])
cacheHit(c, u) == c[u] # <<>> /\ Truthy(c[u][1])

\* if (cancelRequest.current) return;
skipDispatchMutNever(cancel) == FALSE

skipDispatch(cancel) == cancel

\* no useFetch hook is in use
NoFetchHook ==
  /\ url = ""
  /\ fetchMounted = FALSE
  /\ cache = [u \in Urls |-> <<>>]
  /\ cancelRequest = FALSE
  /\ state = initialState
  /\ pending = {}
  /\ issued = 0
  /\ current = 0
  /\ fetchLast = [op |-> "none", id |-> 0, called |-> FALSE]

\* ========================================================= useLocalStorage
\* instances of useLocalStorage and of useReadLocalStorage, all with one key
LsHooks == {"a", "b"}
RlsHooks == {"r"}
StorageHooks == LsHooks \cup RlsHooks

\* values passed to setValue
StorageValues == {JsFalse, JsTrue, JsZero, JsEmptyString, JsNull, JsUndefined}
\* values passed as initialValue
InitialValues == {JsStringA, JsTrue}

\* JSON.stringify(v): <<text>>, or <<>> when the result is undefined
JSONstringify(v) ==
  CASE v = JsFalse -> <<"false">>
    [] v = JsTrue -> <<"true">>
    [] v = JsZero -> <<"0">>
    [] v = JsEmptyString -> <<"\"\"">>
    [] v = JsStringA -> <<"\"a\"">>
    [] v = JsNull -> <<"null">>
    [] OTHER -> <<>>

\* the string setItem stores for its second argument
setItemText(r) == IF r = <<>> THEN "undefined" ELSE r[1]

\* JSON.parse(text): <<v>>, or <<>> when it throws
JSONparse(text) ==
  CASE text = "false" -> <<JsFalse>>
    [] text = "true" -> <<JsTrue>>
    [] text = "0" -> <<JsZero>>
    [] text = "\"\"" -> <<JsEmptyString>>
    [] text = "\"a\"" -> <<JsStringA>>
    [] text = "null" -> <<JsNull>>
    [] OTHER -> <<>>

\* parseJSON: the wrapper of JSON.parse that supports "undefined"
parseJSON(text) ==
  IF text = "undefined" THEN JsUndefined
  ELSE IF JSONparse(text) = <<>> THEN JsUndefined
  ELSE JSONparse(text)[1]

\* `item ? ... : ...` on the result of getItem (null or a string)
itemTruthy(item) == item # <<>> /\ item[1] # ""

\* useLocalStorage.readValue
readValueMutOr(item, init) ==
  IF itemTruthy(item) /\ Truthy(parseJSON(item[1])) THEN parseJSON(item[1])
  ELSE init

readValue(item, init) ==
  IF itemTruthy(item) THEN parseJSON(item[1]) ELSE init

\* useReadLocalStorage.readValue
readValueRls(item) ==
  IF itemTruthy(item)
  THEN IF JSONparse(item[1]) = <<>> THEN JsNull ELSE JSONparse(item[1])[1]
  ELSE JsNull

\* what readValue() of hook h yields for the item
readValueOf(h, item, init) ==
  IF h \in LsHooks THEN readValue(item, init[h]) ELSE readValueRls(item)

\* the updater of the documented example: prevValue => !prevValue
Updaters == {"not"}
applyUpdater(f, v) == IF Truthy(v) THEN JsFalse ELSE JsTrue

\* no storage hook is in use
NoStorageHook ==
  /\ localStorage = <<>>
  /\ lsMounted = [h \in StorageHooks |-> FALSE]
  /\ lsInitial = [h \in StorageHooks |-> JsUndefined]
  /\ storedValue = [h \in StorageHooks |-> JsUndefined]
  /\ returned = [h \in StorageHooks |-> JsUndefined]
  /\ written = <<>>
  /\ lsLast = [op |-> "none", hook |-> "a"]

\* ------------------------------------------------------ useTernaryDarkMode
Modes == {"system", "dark", "light"}

\* toggleDict of toggleTernaryDarkMode
toggleDict(m) ==
  CASE m = "light"  -> "system"
    [] m = "system" -> "dark"
    [] m = "dark"   -> "light"

\* the switch of the second effect, with case 'light' following the OS
switchValueMutLight(m, isDarkOS) ==
  CASE m = "light"  -> isDarkOS
    [] m = "system" -> isDarkOS
    [] m = "dark"   -> TRUE

\* the value the second effect hands to setDarkMode
switchValue(m, isDarkOS) ==
  CASE m = "light"  -> FALSE
    [] m = "system" -> isDarkOS
    [] m = "dark"   -> TRUE

\* isDarkMode after the body of useUpdateEffect: nothing on the first render,
\* and setDarkMode(isDarkOS) only in mode 'system'
updateEffectValue(isFirst, m, isDarkOS, cur) ==
  IF ~isFirst /\ m = "system" THEN isDarkOS ELSE cur

\* no useTernaryDarkMode hook is in use
NoThemeHook ==
  /\ osDark = FALSE
  /\ matches = FALSE
  /\ ternaryDarkMode = "system"
  /\ isDarkMode = FALSE
  /\ themeRender = [mode |-> "system", isDarkOS |-> FALSE, isDarkMode |-> FALSE,
                    isFirst |-> TRUE]
  /\ themeDeps = <<>>
  /\ themeEffectsPending = FALSE
  /\ settled = <<>>
  /\ themeLast = "none"

\* ------------------------------------------------------------ useCountdown
MaxTicks == 3
SecondsProps == 0..2
IntervalProps == {0, 500}

\* useCounter: useState(initialValue || 0) and reset
counterInitial(s) == IF s # 0 THEN s ELSE 0

\* the delay handed to useInterval: running ? interval : null (null is <<>>)
delay(r, i) == IF r THEN <<i>> ELSE <<>>

\* the early return of the effect of useInterval: !delay && delay !== 0
noSchedule(d) == (d = <<>> \/ d[1] = 0) /\ d # <<0>>

\* no useCountdown hook is in use
NoCountdownHook ==
  /\ seconds = 0
  /\ interval = 0
  /\ isIncrement = FALSE
  /\ count = 0
  /\ running = FALSE
  /\ cdRender = [count |-> 0, running |-> FALSE]
  /\ delayDeps = <<>>
  /\ intervalId = FALSE
  /\ cdEffectsPending = FALSE
  /\ sinceReset = FALSE
  /\ cdLast = "none"

\* ---------------------------------------------------------------- Init
Init ==
  /\ total \in Totals
  /\ siblings \in SiblingCounts
  /\ boundaries \in BoundaryCounts
  /\ initialPage \in PageArgs
  /\ page = <<>>
  /\ hasOnChange \in BOOLEAN
  /\ held = initialValue(initialPage, total)
  /\ activePage = held
  /\ memoRange = paginationRange(total, siblings, boundaries, activePage)
  /\ memoDeps = memoDependencies(total, siblings, boundaries, activePage)
  /\ lastOp = "init"
  /\ lastArg = 0
  /\ notified = <<>>
  /\ walk = IF WalkStart(total, siblings, boundaries, initialPage, page)
            THEN 0 ELSE 0 - 1
  /\ NoFetchHook
  /\ NoStorageHook
  /\ NoThemeHook
  /\ NoCountdownHook

\* ---------------------------------------------------------------- actions
\* useUncontrolled's setter: onChange is called with the value when the
\* caller registered one; the held page is replaced unless the last render
\* was controlled
setActivePage(v) ==
  /\ notified' = IF hasOnChange THEN <<v>> ELSE <<>>
  /\ held' = IF rule(page, total) THEN held ELSE v

\* the callbacks leave the render's constants and the memo alone
CallbackFrame ==
  UNCHANGED <<props, activePage, memoRange, memoDeps, fetchVars, storageVars,
              themeVars, countdownVars>>

\* history: the call op(arg) continues the documented example when it is
\* the example's next call and is made on a rendered hook
WalkAfter(op, arg) ==
  walk' = IF /\ walk >= 0
             /\ walk < Len(WalkScript)
             /\ held = activePage
             /\ WalkScript[walk + 1] = <<op, arg>>
          THEN walk + 1
          ELSE 0 - 1

setPage(pageNumber) ==
  /\ setActivePage(setPageValue(pageNumber, total))
  /\ lastOp' = "setPage"
  /\ lastArg' = pageNumber
  /\ WalkAfter("setPage", pageNumber)
  /\ CallbackFrame

next ==
  /\ setActivePage(setPageValue(activePage + 1, total))
  /\ lastOp' = "next"
  /\ lastArg' = 0
  /\ WalkAfter("next", 0)
  /\ CallbackFrame

previous ==
  /\ setActivePage(setPageValue(activePage - 1, total))
  /\ lastOp' = "previous"
  /\ lastArg' = 0
  /\ WalkAfter("previous", 0)
  /\ CallbackFrame

first ==
  /\ setActivePage(setPageValue(1, total))
  /\ lastOp' = "first"
  /\ lastArg' = 0
  /\ WalkAfter("first", 0)
  /\ CallbackFrame

last ==
  /\ setActivePage(setPageValue(total, total))
  /\ lastOp' = "last"
  /\ lastArg' = 0
  /\ WalkAfter("last", 0)
  /\ CallbackFrame

\* what one run of the hook body does with props t, s, b and page pg
HookBody(t, s, b, pg) ==
  /\ total' = t
  /\ siblings' = s
  /\ boundaries' = b
  /\ page' = pg
  /\ activePage' = effectiveValue(pg, held, t)
  /\ memoRange' = useMemo(t, s, b, effectiveValue(pg, held, t), memoDeps, memoRange)
  /\ memoDeps' = memoDependencies(t, s, b, effectiveValue(pg, held, t))
  /\ notified' = <<>>
  /\ UNCHANGED <<initialPage, hasOnChange, held, fetchVars, storageVars,
                 themeVars, countdownVars>>

\* a run of the hook body with the page prop left as it is
RenderWith(t, s, b) == HookBody(t, s, b, page)

\* re-render caused by a change of the held page, props unchanged
Render ==
  /\ effectiveValue(page, held, total) # activePage
  /\ RenderWith(total, siblings, boundaries)
  /\ lastOp' = "render"
  /\ lastArg' = 0
  /\ UNCHANGED walk

\* re-render by the parent with new props
Rerender(t, s, b) ==
  /\ <<t, s, b>> # <<total, siblings, boundaries>>
  /\ RenderWith(t, s, b)
  /\ lastOp' = "rerender"
  /\ lastArg' = 0
  /\ walk' = 0 - 1

Next ==
  \/ \E p \in PageArgs : setPage(p)
  \/ next
  \/ previous
  \/ first
  \/ last
  \/ Render

Spec == Init /\ [][Next]_vars

\* the same hook under a parent that also changes total, siblings, boundaries
NextProps ==
  \/ Next
  \/ \E t \in Totals, s \in SiblingCounts, b \in BoundaryCounts : Rerender(t, s, b)

SpecProps == Init /\ [][NextProps]_vars

\* ------------------------------------------------- controlled usePagination
\* values of the page prop
PageProps == {<<>>} \cup {<<n>> : n \in PageArgs}

\* first render of a hook whose caller may supply page
InitControlled ==
  /\ total \in Totals
  /\ siblings = 1
  /\ boundaries = 1
  /\ initialPage = 1
  /\ page \in PageProps
  /\ hasOnChange \in BOOLEAN
  /\ held = initialValue(initialPage, total)
  /\ activePage = effectiveValue(page, held, total)
  /\ memoRange = paginationRange(total, siblings, boundaries, activePage)
  /\ memoDeps = memoDependencies(total, siblings, boundaries, activePage)
  /\ lastOp = "init"
  /\ lastArg = 0
  /\ notified = <<>>
  /\ walk = 0 - 1
  /\ NoFetchHook
  /\ NoStorageHook
  /\ NoThemeHook
  /\ NoCountdownHook

\* re-render by the parent with a new page prop
RerenderPage(pg) ==
  /\ pg # page
  /\ HookBody(total, siblings, boundaries, pg)
  /\ lastOp' = "rerender"
  /\ lastArg' = 0
  /\ walk' = 0 - 1

NextControlled ==
  \/ Next
  \/ \E pg \in PageProps : RerenderPage(pg)

SpecControlled == InitControlled /\ [][NextControlled]_vars

\* ---------------------------------------------------------- useFetch steps
\* no usePagination hook is in use
NoPaginationHook ==
  /\ total = 0
  /\ siblings = 1
  /\ boundaries = 1
  /\ initialPage = 1
  /\ page = <<>>
  /\ hasOnChange = FALSE
  /\ held = 1
  /\ activePage = 1
  /\ memoRange = <<>>
  /\ memoDeps = <<0, 1, 1>>
  /\ lastOp = "none"
  /\ lastArg = 0
  /\ notified = <<>>
  /\ walk = 0 - 1

\* the hook after its first render and the effect of that render
InitFetch ==
  /\ NoPaginationHook
  /\ url \in UrlProps
  /\ fetchMounted = TRUE
  /\ cache = [u \in Urls |-> <<>>]
  /\ cancelRequest = FALSE
  /\ state = initialState
  /\ pending = IF url = "" THEN {} ELSE {[id |-> 1, url |-> url]}
  /\ issued = IF url = "" THEN 0 ELSE 1
  /\ current = issued
  /\ fetchLast = [op |-> "mount", id |-> issued, called |-> url # ""]
  /\ NoStorageHook
  /\ NoThemeHook
  /\ NoCountdownHook

FetchFrame ==
  UNCHANGED <<paginationVars, storageVars, themeVars, countdownVars>>

\* the cleanup of the last effect run, which exists when that run had a url
cleanup(u, cancel) == IF u = "" THEN cancel ELSE TRUE

\* re-render with a new url: cleanup of the previous effect run, then the
\* effect with the new url, up to fetchData's first await
ChangeUrl(u) ==
  /\ fetchMounted
  /\ u # url
  /\ issued < MaxRequests
  /\ url' = u
  /\ cancelRequest' = cleanup(url, cancelRequest)
  /\ IF u = ""
     THEN /\ current' = 0
          /\ fetchLast' = [op |-> "effect", id |-> 0, called |-> FALSE]
          /\ UNCHANGED <<state, pending, issued>>
     ELSE IF cacheHit(cache, u)
     THEN /\ state' = fetchReducer(fetchReducer(state, "loading", <<>>),
                                   "fetched", cache[u][1])
          /\ current' = 0
          /\ fetchLast' = [op |-> "effect", id |-> 0, called |-> FALSE]
          /\ UNCHANGED <<pending, issued>>
     ELSE /\ state' = fetchReducer(state, "loading", <<>>)
          /\ issued' = issued + 1
          /\ pending' = pending \cup {[id |-> issued + 1, url |-> u]}
          /\ current' = issued + 1
          /\ fetchLast' = [op |-> "effect", id |-> issued + 1, called |-> TRUE]
  /\ UNCHANGED <<fetchMounted, cache>>
  /\ FetchFrame

\* a request settles with an ok response whose body parses to data
RespondOk(r, data) ==
  /\ r \in pending
  /\ pending' = pending \ {r}
  /\ cache' = [cache EXCEPT ![r.url] = <<data>>]
  /\ state' = IF skipDispatch(cancelRequest) THEN state
              ELSE fetchReducer(state, "fetched", data)
  /\ fetchLast' = [op |-> "ok", id |-> r.id, called |-> FALSE]
  /\ UNCHANGED <<url, fetchMounted, cancelRequest, issued, current>>
  /\ FetchFrame

\* a request fails: fetch rejects, the response is not ok or its body does
\* not parse
RespondError(r) ==
  /\ r \in pending
  /\ pending' = pending \ {r}
  /\ state' = IF skipDispatch(cancelRequest) THEN state
              ELSE fetchReducer(state, "error", "Error")
  /\ fetchLast' = [op |-> "error", id |-> r.id, called |-> FALSE]
  /\ UNCHANGED <<url, fetchMounted, cache, cancelRequest, issued, current>>
  /\ FetchFrame

\* the component is unmounted: the cleanup of the last effect run
Unmount ==
  /\ fetchMounted
  /\ fetchMounted' = FALSE
  /\ cancelRequest' = cleanup(url, cancelRequest)
  /\ fetchLast' = [op |-> "unmount", id |-> 0, called |-> FALSE]
  /\ UNCHANGED <<url, cache, state, pending, issued, current>>
  /\ FetchFrame

NextFetch ==
  \/ \E u \in UrlProps : ChangeUrl(u)
  \/ \E r \in pending, data \in Payloads : RespondOk(r, data)
  \/ \E r \in pending : RespondError(r)
  \/ Unmount

SpecFetch == InitFetch /\ [][NextFetch]_vars

\* --------------------------------------------------- useLocalStorage steps
\* a page with an empty storage and no hook mounted yet
InitStorage ==
  /\ NoPaginationHook
  /\ NoFetchHook
  /\ NoStorageHook
  /\ NoThemeHook
  /\ NoCountdownHook

StorageFrame ==
  UNCHANGED <<paginationVars, fetchVars, themeVars, countdownVars>>

\* a hook instance is mounted: useState(readValue), the first render, the
\* mount effect setStoredValue(readValue()) and the listeners' registration
MountHook(h, init) ==
  /\ ~lsMounted[h]
  /\ lsMounted' = [lsMounted EXCEPT ![h] = TRUE]
  /\ lsInitial' = [lsInitial EXCEPT ![h] = IF h \in LsHooks THEN init ELSE JsUndefined]
  /\ storedValue' = [storedValue EXCEPT ![h] = readValueOf(h, localStorage, lsInitial')]
  /\ returned' = [returned EXCEPT ![h] = readValueOf(h, localStorage, lsInitial')]
  /\ lsLast' = [op |-> "mount", hook |-> h]
  /\ UNCHANGED <<localStorage, written>>
  /\ StorageFrame

\* a hook instance is unmounted (a page refresh unmounts all of them)
UnmountHook(h) ==
  /\ lsMounted[h]
  /\ lsMounted' = [lsMounted EXCEPT ![h] = FALSE]
  /\ lsInitial' = [lsInitial EXCEPT ![h] = JsUndefined]
  /\ storedValue' = [storedValue EXCEPT ![h] = JsUndefined]
  /\ returned' = [returned EXCEPT ![h] = JsUndefined]
  /\ lsLast' = [op |-> "unmount", hook |-> h]
  /\ UNCHANGED <<localStorage, written>>
  /\ StorageFrame

\* the body of setValue once newValue is known: setItem, setStoredValue and
\* the 'local-storage' event, whose listeners (those of h included) run within
\* dispatchEvent and set their state to readValue()
store(h, newValue, op) ==
  /\ localStorage' = <<setItemText(JSONstringify(newValue))>>
  /\ storedValue' = [g \in StorageHooks |->
                       IF lsMounted[g] THEN readValueOf(g, localStorage', lsInitial)
                       ELSE storedValue[g]]
  /\ written' = <<newValue>>
  /\ lsLast' = [op |-> op, hook |-> h]
  /\ UNCHANGED <<lsMounted, lsInitial, returned>>
  /\ StorageFrame

\* setValue(v) with a plain value
SetValue(h, v) ==
  /\ h \in LsHooks
  /\ lsMounted[h]
  /\ store(h, v, "setValue")

\* setValue(f) with an updater: f is applied to the storedValue of the
\* render that created this setValue
SetValueUpdater(h, f) ==
  /\ h \in LsHooks
  /\ lsMounted[h]
  /\ store(h, applyUpdater(f, returned[h]), "update")

\* setValue when setItem throws (storage full): the catch only warns
SetValueThrows(h) ==
  /\ h \in LsHooks
  /\ lsMounted[h]
  /\ lsLast' = [op |-> "throw", hook |-> h]
  /\ UNCHANGED <<localStorage, lsMounted, lsInitial, storedValue, returned, written>>
  /\ StorageFrame

\* re-render of a hook instance whose state changed
RenderHook(h) ==
  /\ lsMounted[h]
  /\ returned[h] # storedValue[h]
  /\ returned' = [returned EXCEPT ![h] = storedValue[h]]
  /\ lsLast' = [op |-> "render", hook |-> h]
  /\ UNCHANGED <<localStorage, lsMounted, lsInitial, storedValue, written>>
  /\ StorageFrame

NextStorage ==
  \/ \E h \in StorageHooks, init \in InitialValues : MountHook(h, init)
  \/ \E h \in StorageHooks : UnmountHook(h)
  \/ \E h \in LsHooks, v \in StorageValues : SetValue(h, v)
  \/ \E h \in LsHooks, f \in Updaters : SetValueUpdater(h, f)
  \/ \E h \in LsHooks : SetValueThrows(h)
  \/ \E h \in StorageHooks : RenderHook(h)

SpecStorage == InitStorage /\ [][NextStorage]_vars

\* ------------------------------------------------ useTernaryDarkMode steps
\* the hook after its first render, before the effects of that render: the
\* mode is the stored item or 'system', isDarkMode is useState(isDarkOS)
InitTheme ==
  /\ NoPaginationHook
  /\ NoFetchHook
  /\ NoStorageHook
  /\ NoCountdownHook
  /\ osDark \in BOOLEAN
  /\ matches = osDark
  /\ ternaryDarkMode \in Modes
  /\ isDarkMode = matches
  /\ themeRender = [mode |-> ternaryDarkMode, isDarkOS |-> matches,
                    isDarkMode |-> isDarkMode, isFirst |-> TRUE]
  /\ themeDeps = <<>>
  /\ themeEffectsPending = TRUE
  /\ settled = <<>>
  /\ themeLast = "mount"

ThemeFrame ==
  UNCHANGED <<paginationVars, fetchVars, storageVars, countdownVars>>

\* the last render shows the current state and its effects have run
ThemeQuiescent ==
  /\ ~themeEffectsPending
  /\ themeRender.mode = ternaryDarkMode
  /\ themeRender.isDarkOS = matches
  /\ themeRender.isDarkMode = isDarkMode

\* the OS colour scheme changes; the 'change' listener of useMediaQuery, once
\* its effect has attached it, calls setMatches(getMatches(query))
handleChange ==
  /\ osDark' = ~osDark
  /\ matches' = IF themeDeps # <<>> THEN osDark' ELSE matches
  /\ themeLast' = "os"
  /\ UNCHANGED <<ternaryDarkMode, isDarkMode, themeRender, themeDeps,
                 themeEffectsPending, settled>>
  /\ ThemeFrame

\* setTernaryDarkMode(m): setValue of useLocalStorage with a plain value
setTernaryDarkMode(m) ==
  /\ ternaryDarkMode' = m
  /\ settled' = <<>>
  /\ themeLast' = "set"
  /\ UNCHANGED <<osDark, matches, isDarkMode, themeRender, themeDeps,
                 themeEffectsPending>>
  /\ ThemeFrame

\* toggleTernaryDarkMode(): setValue of useLocalStorage with an updater, which
\* setValue applies to the storedValue of the render that created it
toggleTernaryDarkMode ==
  /\ ternaryDarkMode' = toggleDict(themeRender.mode)
  /\ settled' = <<>>
  /\ themeLast' = "toggle"
  /\ UNCHANGED <<osDark, matches, isDarkMode, themeRender, themeDeps,
                 themeEffectsPending>>
  /\ ThemeFrame

\* a render of the hook; React runs the effects of the previous render first
ThemeRenderStep ==
  /\ ~themeEffectsPending
  /\ themeRender' = [mode |-> ternaryDarkMode, isDarkOS |-> matches,
                     isDarkMode |-> isDarkMode, isFirst |-> FALSE]
  /\ themeEffectsPending' = TRUE
  /\ themeLast' = "render"
  /\ UNCHANGED <<osDark, matches, ternaryDarkMode, isDarkMode, themeDeps, settled>>
  /\ ThemeFrame

\* the effects of the last render, in hook order: the effect of useMediaQuery
\* (first run only, its dependency is the constant query), useUpdateEffect
\* with [isDarkOS], useEffect with [ternaryDarkMode, isDarkOS]
ThemeEffects ==
  /\ themeEffectsPending
  /\ LET m == themeRender.mode
         os == themeRender.isDarkOS
         firstRun == themeDeps = <<>>
         osChanged == firstRun \/ themeDeps[2] # os
         anyChanged == firstRun \/ themeDeps # <<m, os>>
         afterUpdate == IF osChanged
                        THEN updateEffectValue(themeRender.isFirst, m, os, isDarkMode)
                        ELSE isDarkMode
         afterSwitch == IF anyChanged THEN switchValue(m, os) ELSE afterUpdate
     IN /\ matches' = IF firstRun THEN osDark ELSE matches
        /\ isDarkMode' = afterSwitch
        /\ themeDeps' = <<m, os>>
  /\ themeEffectsPending' = FALSE
  /\ UNCHANGED <<osDark, ternaryDarkMode, themeRender>>
  /\ settled' = IF settled = <<>> /\ ThemeQuiescent'
                THEN <<isDarkMode', osDark>> ELSE settled
  /\ themeLast' = "effects"
  /\ ThemeFrame

NextTheme ==
  \/ handleChange
  \/ \E m \in Modes : setTernaryDarkMode(m)
  \/ toggleTernaryDarkMode
  \/ ThemeRenderStep
  \/ ThemeEffects

SpecTheme == InitTheme /\ [][NextTheme]_vars

\* ------------------------------------------------------ useCountdown steps
\* the hook after its first render, before the effects of that render
InitCountdown ==
  /\ NoPaginationHook
  /\ NoFetchHook
  /\ NoStorageHook
  /\ NoThemeHook
  /\ seconds \in SecondsProps
  /\ interval \in IntervalProps
  /\ isIncrement \in BOOLEAN
  /\ count = counterInitial(seconds)
  /\ running = FALSE
  /\ cdRender = [count |-> count, running |-> running]
  /\ delayDeps = <<>>
  /\ intervalId = FALSE
  /\ cdEffectsPending = TRUE
  /\ sinceReset = FALSE
  /\ cdLast = "mount"

CountdownFrame ==
  UNCHANGED <<paginationVars, fetchVars, storageVars, themeVars,
              seconds, interval, isIncrement>>

\* start(): setTrue of useBoolean
start ==
  /\ running' = TRUE
  /\ sinceReset' = FALSE
  /\ cdLast' = "start"
  /\ UNCHANGED <<count, cdRender, delayDeps, intervalId, cdEffectsPending>>
  /\ CountdownFrame

\* stop(): setFalse of useBoolean
stop ==
  /\ running' = FALSE
  /\ cdLast' = "stop"
  /\ UNCHANGED <<count, cdRender, delayDeps, intervalId, cdEffectsPending,
                 sinceReset>>
  /\ CountdownFrame

\* reset(): stop() and the reset of useCounter
reset ==
  /\ running' = FALSE
  /\ count' = counterInitial(seconds)
  /\ sinceReset' = TRUE
  /\ cdLast' = "reset"
  /\ UNCHANGED <<cdRender, delayDeps, intervalId, cdEffectsPending>>
  /\ CountdownFrame

\* the timer of setInterval fires and calls savedCallback.current, which is
\* increment or decrement of useCounter.  A timer task runs between tasks,
\* when React has rendered the state changes of the handlers before it; the
\* effects of that render may still be waiting.
tick ==
  /\ intervalId
  /\ cdRender = [count |-> count, running |-> running]
  /\ count - seconds < MaxTicks
  /\ seconds - count < MaxTicks
  /\ count' = IF isIncrement THEN count + 1 ELSE count - 1
  /\ cdLast' = "tick"
  /\ UNCHANGED <<running, cdRender, delayDeps, intervalId, cdEffectsPending,
                 sinceReset>>
  /\ CountdownFrame

\* a render of the hook; React runs the effects of the previous render first
CountdownRender ==
  /\ ~cdEffectsPending
  /\ cdRender' = [count |-> count, running |-> running]
  /\ cdEffectsPending' = TRUE
  /\ cdLast' = "render"
  /\ UNCHANGED <<count, running, delayDeps, intervalId, sinceReset>>
  /\ CountdownFrame

\* the effect of useInterval for the last render: when delay changed, the
\* cleanup clears the interval of the previous run and the body registers a
\* new one unless it returns early
CountdownEffects ==
  /\ cdEffectsPending
  /\ LET d == delay(cdRender.running, interval)
     IN IF delayDeps = <<>> \/ delayDeps[1] # d
        THEN /\ intervalId' = ~noSchedule(d)
             /\ delayDeps' = <<d>>
        ELSE UNCHANGED <<intervalId, delayDeps>>
  /\ cdEffectsPending' = FALSE
  /\ cdLast' = "effects"
  /\ UNCHANGED <<count, running, cdRender, sinceReset>>
  /\ CountdownFrame

NextCountdown ==
  \/ start
  \/ stop
  \/ reset
  \/ tick
  \/ CountdownRender
  \/ CountdownEffects

SpecCountdown == InitCountdown /\ [][NextCountdown]_vars

\* ---------------------------------------------------------------- properties
\* the tokens of a range that are page numbers, in order
NumericTokens(r) == SelectSeq(r, LAMBDA x : x # DOTS)

StrictlyIncreasing(r) == \A i \in 1..(Len(r) - 1) : r[i] < r[i + 1]

HasDots(r) == \E i \in 1..Len(r) : r[i] = DOTS

DotsCount(r) == Cardinality({i \in 1..Len(r) : r[i] = DOTS})

\* number of pages the ellipsis at position i of r stands for: the pages
\* strictly between its neighbours, the missing neighbour at an end of the
\* range being taken as page 0 or page t + 1
ElidedBy(r, i, t) ==
  LET lo == IF i = 1 THEN 0 ELSE r[i - 1]
      hi == IF i = Len(r) THEN t + 1 ELSE r[i + 1]
  IN  hi - lo - 1

\* an ellipsis has page numbers (or an end of the range) as neighbours
DotsNeighboursNumeric(r) ==
  \A i \in 1..Len(r) : r[i] = DOTS =>
    /\ (i > 1 => r[i - 1] # DOTS)
    /\ (i < Len(r) => r[i + 1] # DOTS)

PageInRange == total = 0 \/ activePage \in 1..total

\* C1: in uncontrolled mode, after any sequence of setPage, next, previous,
\* first and last calls the active page returned by the hook is in
\* [1, total], and it is 1 when total is 0.
C1_ActivePageValid ==
  IF total = 0 THEN activePage = 1 ELSE activePage \in 1..total

C3_RangeIsFresh ==
  memoRange = paginationRange(total, siblings, boundaries, activePage)

\* C4 as stated: for total >= 1, siblings >= 0, boundaries >= 0 and a page
\* in [1, total] the page numbers of the range are strictly increasing, the
\* first token is 1 and the last token is total.
C4_Original ==
  (total >= 1 /\ activePage \in 1..total) =>
    /\ StrictlyIncreasing(NumericTokens(memoRange))
    /\ Len(memoRange) >= 1
    /\ memoRange[1] = 1
    /\ memoRange[Len(memoRange)] = total

\* C4 amended: the same for boundaries >= 1; with boundaries = 0 only the
\* strict increase of the page numbers holds.
C4_OrderedWithEnds ==
  (total >= 1 /\ activePage \in 1..total) =>
    /\ StrictlyIncreasing(NumericTokens(memoRange))
    /\ boundaries >= 1 =>
         /\ Len(memoRange) >= 1
         /\ memoRange[1] = 1
         /\ memoRange[Len(memoRange)] = total

C4_Witness ==
  /\ lastOp = "render"
  /\ boundaries >= 1
  /\ total > totalPageNumbers(siblings, boundaries)
  /\ activePage = total
  /\ DotsCount(memoRange) = 1
  /\ memoRange[1] = 1
  /\ memoRange[Len(memoRange)] = total

\* C5: every ellipsis of the range stands for at least two pages; an
\* ellipsis never replaces exactly one page.
C5_DotsHideTwoPages ==
  PageInRange =>
    /\ DotsNeighboursNumeric(memoRange)
    /\ \A i \in 1..Len(memoRange) :
         memoRange[i] = DOTS => ElidedBy(memoRange, i, total) >= 2

C5_Witness ==
  /\ lastOp = "render"
  /\ DotsCount(memoRange) = 2
  /\ \E i \in 1..Len(memoRange) :
       memoRange[i] = DOTS /\ ElidedBy(memoRange, i, total) = 2

\* C6: when 2*siblings + 3 + 2*boundaries >= total the range is the dense
\* sequence 1..total without ellipsis, for every active page.
C6_DenseWhenWindowCoversTotal ==
  (siblings * 2 + 3 + boundaries * 2 >= total) =>
    /\ Len(memoRange) = total
    /\ \A i \in 1..total : memoRange[i] = i

C6_Witness ==
  /\ lastOp = "render"
  /\ siblings * 2 + 3 + boundaries * 2 = total
  /\ activePage = total
  /\ memoRange = [i \in 1..total |-> i]

\* C7: the range never has more than 2*boundaries + 2*siblings + 3 tokens.
C7_LengthBounded ==
  PageInRange => Len(memoRange) <= 2 * boundaries + 2 * siblings + 3

C7_Witness ==
  /\ lastOp = "render"
  /\ HasDots(memoRange)
  /\ activePage = 1
  /\ Len(memoRange) = 2 * boundaries + 2 * siblings + 3

\* C8: setPage(p) makes the page 1 when p <= 0, total when p > total and p
\* otherwise, and the resulting page is always a valid page: one in
\* [1, total], page 1 when there is no page at all.
C8_SetPageClampsToValid ==
  lastOp = "setPage" =>
    /\ (lastArg <= 0 => held = 1)
    /\ (lastArg > total => held = total)
    /\ (lastArg \in 1..total => held = lastArg)
    /\ IF total = 0 THEN held = 1 ELSE held \in 1..total

\* C9: setPage is idempotent: setPage applied to the page that setPage(x)
\* produced yields that page again.
C9_SetPageIdempotent ==
  lastOp = "setPage" => setPageValue(held, total) = held

\* C10: next, previous, first and last act as setPage(current + 1),
\* setPage(current - 1), setPage(1) and setPage(total) on the page held at
\* the moment of the call, whether or not a render happened since the
\* previous call.
C10_NavigationUsesHeldPage ==
  [][/\ (lastOp' = "next" => held' = setPageValue(held + 1, total))
     /\ (lastOp' = "previous" => held' = setPageValue(held - 1, total))
     /\ (lastOp' = "first" => held' = setPageValue(1, total))
     /\ (lastOp' = "last" => held' = setPageValue(total, total))]_vars

NavOps == {"setPage", "next", "previous", "first", "last"}

\* the ranges the documented example lists: at the start and after each call
WalkRanges ==
  << <<1, 2, 3, 4, 5, DOTS, 10>>,
     <<1, DOTS, 4, 5, 6, DOTS, 10>>,
     <<1, DOTS, 5, 6, 7, DOTS, 10>>,
     <<1, DOTS, 4, 5, 6, DOTS, 10>>,
     <<1, DOTS, 6, 7, 8, 9, 10>>,
     <<1, 2, 3, 4, 5, DOTS, 10>> >>

\* C11: with total=10, siblings=1, boundaries=1, initialPage=1 the hook
\* follows the documented example: the range is [1,2,3,4,5,dots,10] at the
\* start, then [1,dots,4,5,6,dots,10] after setPage(5), [1,dots,5,6,7,dots,10]
\* after next(), [1,dots,4,5,6,dots,10] after previous(),
\* [1,dots,6,7,8,9,10] after last() (the range of page 9 too) and
\* [1,2,3,4,5,dots,10] after first().
C11_DocumentedWalk ==
  /\ (walk >= 0 /\ held = activePage) => memoRange = WalkRanges[walk + 1]
  /\ (total = 10 /\ siblings = 1 /\ boundaries = 1 /\ activePage = 9) =>
       memoRange = <<1, DOTS, 6, 7, 8, 9, 10>>

C11_Witness ==
  /\ walk = 5
  /\ lastOp = "render"
  /\ activePage = 1
  /\ memoRange = <<1, 2, 3, 4, 5, DOTS, 10>>

\* C12 as stated: whenever the caller supplies a page value, the active
\* page returned by the hook is that value.
C12_Original == page # <<>> => activePage = page[1]

\* C12 amended: whenever the caller supplies a page value that is not above
\* total, the active page returned by the hook is that value, and a
\* navigation call changes neither the held page nor the active page.
C12_ControlledPageWins ==
  /\ [](page # <<>> /\ page[1] <= total => activePage = page[1])
  /\ [][(page # <<>> /\ page[1] <= total /\ lastOp' \in NavOps) =>
          (held' = held /\ activePage' = activePage)]_vars

C12_Witness ==
  /\ lastOp = "setPage"
  /\ page # <<>>
  /\ page[1] \in 1..total
  /\ lastArg \in 1..total
  /\ lastArg # page[1]
  /\ activePage = page[1]
  /\ notified = <<lastArg>>

\* C13: when an onChange callback is registered, every call of setPage,
\* next, previous, first or last calls it, within the call, with the new
\* clamped page value.
C13_OnChangeCalled ==
  LET Clamped(p) == IF p <= 0 THEN 1 ELSE IF p > total THEN total ELSE p
      requested ==
        CASE lastOp = "setPage" -> lastArg
          [] lastOp = "next" -> activePage + 1
          [] lastOp = "previous" -> activePage - 1
          [] lastOp = "first" -> 1
          [] lastOp = "last" -> total
  IN  (hasOnChange /\ lastOp \in NavOps) =>
        /\ notified = <<Clamped(requested)>>
        /\ (page = <<>> => notified = <<held>>)

C13_Witness ==
  /\ hasOnChange
  /\ lastOp = "setPage"
  /\ lastArg > total
  /\ total >= 1
  /\ notified = <<total>>

\* C14: with total = 0 the range is the empty sequence and the page the hook
\* holds is no valid selection (null rather than a page number); the page is
\* read after a navigation call, where setPage decides it.
C14_NoPagesNoSelection ==
  total = 0 =>
    /\ memoRange = <<>>
    /\ (lastOp \in NavOps => held = NoSelection)

\* C15: when the url changes to a defined url that is not cached and the
\* request started for it succeeds while the component is mounted, the state
\* holds the response as data; stated on the step that delivers the response.
C15_ResponseReachesState ==
  (fetchLast.op = "ok" /\ fetchLast.id = current /\ fetchMounted) =>
    state.data = cache[url]

\* C16: once the component is unmounted, no response or failure of a request
\* still in flight changes the state.
C16_NoDispatchAfterUnmount ==
  [][~fetchMounted => state' = state]_vars

C16_Witness ==
  /\ ~fetchMounted
  /\ fetchLast.op \in {"ok", "error"}
  /\ cancelRequest

\* C17: once a url was fetched successfully, a later request for it sets
\* state.data to the cached value and does not call fetch again.
C17_CachedUrlNotRefetched ==
  (fetchLast.op = "effect" /\ url # "" /\ cache[url] # <<>>) =>
    /\ state.data = cache[url]
    /\ ~fetchLast.called

\* C18: a value written with setValue survives a page refresh: a
\* useLocalStorage hook mounted after a successful setValue(v) returns v, not
\* its own initialValue, for every JSON-serialisable v (false, 0, the empty
\* string and null included).
C18_WrittenValueSurvives ==
  (/\ lsLast.op = "mount"
   /\ lsLast.hook \in LsHooks
   /\ written # <<>>
   /\ written # <<JsUndefined>>) =>
    returned[lsLast.hook] = written[1]

C18_Witness ==
  /\ lsLast.op = "mount"
  /\ lsLast.hook \in LsHooks
  /\ written \in {<<JsFalse>>, <<JsZero>>, <<JsEmptyString>>, <<JsNull>>}
  /\ returned[lsLast.hook] = written[1]
  /\ lsInitial[lsLast.hook] # written[1]
  /\ \A g \in StorageHooks \ {lsLast.hook} : ~lsMounted[g]

\* C19: after a successful setValue(v) in one mounted instance, every other
\* mounted useLocalStorage or useReadLocalStorage instance holds v once the
\* 'local-storage' event has been handled.
C19_EveryHookNotified ==
  lsLast.op \in {"setValue", "update"} =>
    \A g \in StorageHooks \ {lsLast.hook} :
      lsMounted[g] => storedValue[g] = written[1]

\* C20: an updater passed to setValue is applied to the latest value: the
\* state and the stored item after setValue(f) are f of the state before the
\* call, also when no render happened since the previous call.
C20_UpdaterSeesLatestValue ==
  [][lsLast'.op = "update" =>
       /\ storedValue'[lsLast'.hook] = applyUpdater("not", storedValue[lsLast'.hook])
       /\ localStorage' =
            <<setItemText(JSONstringify(applyUpdater("not", storedValue[lsLast'.hook])))>>
    ]_vars

\* C21: toggleTernaryDarkMode moves the mode from dark to system, from system
\* to light and from light to dark.
C21_ToggleOrder ==
  [][themeLast' = "toggle" =>
       ternaryDarkMode' = CASE ternaryDarkMode = "dark"   -> "system"
                            [] ternaryDarkMode = "system" -> "light"
                            [] ternaryDarkMode = "light"  -> "dark"
    ]_vars

\* C22: once the effects have run, isDarkMode is true exactly when the mode is
\* 'dark', or the mode is 'system' and the OS prefers dark; and in the modes
\* 'light' and 'dark' isDarkMode keeps the value it settled at, whatever the
\* OS does.
C22_IsDarkModeFollowsMode ==
  /\ ThemeQuiescent =>
       (isDarkMode <=> (\/ ternaryDarkMode = "dark"
                        \/ ternaryDarkMode = "system" /\ osDark))
  /\ (settled # <<>> /\ ternaryDarkMode \in {"light", "dark"}) =>
       isDarkMode = settled[1]

\* mode 'light' settled while the OS preferred light, the OS has turned dark
\* since and the effects of that change have run
C22_Witness ==
  /\ ThemeQuiescent
  /\ themeLast = "effects"
  /\ ternaryDarkMode = "light"
  /\ settled = <<FALSE, FALSE>>
  /\ osDark
  /\ themeDeps = <<"light", TRUE>>
  /\ ~isDarkMode

\* C23: after reset() and until start() is called, running is false and the
\* count equals seconds; no interval tick changes it.
C23_ResetHolds ==
  sinceReset => (~running /\ count = seconds)

====
